---- MODULE Spec2Model ----
(***************************************************************************)
(* Conway's Game of Life (gol.py): the grid dictionary, the initialisation *)
(* loop (keys, mouse, pattern files, random seeding), the main loop and    *)
(* the rule engine live_or_die, step by step.                              *)
(*                                                                         *)
(* Python dictionaries are objects: `heap` maps an object reference to the *)
(* dictionary it holds, and the program's variables hold references.       *)
(***************************************************************************)
EXTENDS Integers, Sequences, FiniteSets, TLC

\* ------------------------------------------------------------------------
\* Configuration (gol.py lines 22-32).  The surface is scaled down from
\* 102 x 56 cells so that the state space is finite and small; it keeps
\* about the source's proportions, a height of half the width.
CELL_SIZE == 10
CELL_WIDTH == 5
CELL_HEIGHT == (CELL_WIDTH + 1) \div 2
START_FRACTION == 8
\* the longest run of generations explored after an initialisation
MaxGen == 2
\* the most events one pygame.event.get() of initialise_grid returns
MaxPoll == 2

WINDOW_WIDTH == CELL_WIDTH * CELL_SIZE
WINDOW_HEIGHT == CELL_HEIGHT * CELL_SIZE
CENTRE_CELL == <<CELL_WIDTH \div 2, CELL_HEIGHT \div 2>>

\* gen_count before its first assignment (a local of main not yet bound)
UNBOUND == 0 - 1

\* ------------------------------------------------------------------------
\* Cells and dictionaries

\* every cell of the display surface
Surface == (0 .. CELL_WIDTH - 1) \X (0 .. CELL_HEIGHT - 1)

\* is_in_display_surface with the lower bounds off by one
surface_off_by_one(cell) ==
    /\ cell[1] >= 0 - 1
    /\ cell[1] < CELL_WIDTH
    /\ cell[2] >= 0 - 1
    /\ cell[2] < CELL_HEIGHT

is_in_display_surface(cell) ==
    /\ cell[1] >= 0
    /\ cell[1] < CELL_WIDTH
    /\ cell[2] >= 0
    /\ cell[2] < CELL_HEIGHT

\* {(x, y): False for x in range(CELL_WIDTH) for y in range(CELL_HEIGHT)}
initialise_empty_cells == [c \in Surface |-> FALSE]

\* d[k] = v on a dictionary: the key is created when it is absent
DictSet(d, k, v) == [c \in (DOMAIN d) \cup {k} |-> IF c = k THEN v ELSE d[c]]

\* the keys whose value is True
Alive(d) == {c \in DOMAIN d : d[c]}

\* cell_neighbours with (x, y-1) mistyped as (x-1, y-1)
neighbours_mistyped(c) ==
    << <<c[1] - 1, c[2] - 1>>, <<c[1] - 1, c[2] - 1>>, <<c[1] + 1, c[2] - 1>>,
       <<c[1] - 1, c[2]>>, <<c[1] + 1, c[2]>>,
       <<c[1] - 1, c[2] + 1>>, <<c[1], c[2] + 1>>, <<c[1] + 1, c[2] + 1>> >>

cell_neighbours(c) ==
    << <<c[1] - 1, c[2] - 1>>, <<c[1], c[2] - 1>>, <<c[1] + 1, c[2] - 1>>,
       <<c[1] - 1, c[2]>>, <<c[1] + 1, c[2]>>,
       <<c[1] - 1, c[2] + 1>>, <<c[1], c[2] + 1>>, <<c[1] + 1, c[2] + 1>> >>

\* ------------------------------------------------------------------------
\* The object heap

\* a reference no live object has (the smallest one)
NewRef(h) ==
    CHOOSE r \in 1 .. (Cardinality(DOMAIN h) + 1) :
        /\ r \notin DOMAIN h
        /\ \A q \in 1 .. (r - 1) : q \in DOMAIN h

\* the heap after the objects no variable refers to are collected
Collect(h, refs) == [r \in (DOMAIN h) \cap refs |-> h[r]]

\* cells_ngen = cells in place of cells.copy(): the same object
dict_alias(h, r) == [heap |-> h, ref |-> r]

\* cells.copy(): a new dictionary object with the same items
dict_copy(h, r) == [heap |-> (NewRef(h) :> h[r]) @@ h, ref |-> NewRef(h)]

\* the reference held by a variable that refers to no dictionary
NoRef == 0

\* ------------------------------------------------------------------------
\* Pattern files (Life 1.06 text).  A line is its first-character test and
\* its whitespace-separated tokens; a token is an integer literal or not.

IntTok(k) == [isint |-> TRUE, val |-> k]
WordTok == [isint |-> FALSE, val |-> 0]
CommentLine == [hash |-> TRUE, toks |-> << WordTok >>]
PairLine(x, y) == [hash |-> FALSE, toks |-> << IntTok(x), IntTok(y) >>]

\* a glider, as in glider_106.lif
GliderFile ==
    [exists |-> TRUE,
     lines |-> << CommentLine, PairLine(0, 0 - 1), PairLine(1, 0),
                  PairLine(0 - 1, 1), PairLine(0, 1), PairLine(1, 1) >>]
\* a column of three cells three to the left of the anchor
ColumnFile ==
    [exists |-> TRUE,
     lines |-> << CommentLine, PairLine(0 - 3, 0 - 1), PairLine(0 - 3, 0),
                  PairLine(0 - 3, 1) >>]
\* a valid line followed by a line that holds one integer only
ShortLineFile ==
    [exists |-> TRUE,
     lines |-> << PairLine(0, 0), [hash |-> FALSE, toks |-> << IntTok(1) >>] >>]
\* a valid line followed by a line whose second token is no integer
WordLineFile ==
    [exists |-> TRUE,
     lines |-> << PairLine(0, 0),
                  [hash |-> FALSE, toks |-> << IntTok(1), WordTok >>] >>]
\* a file that is not there
MissingFile == [exists |-> FALSE, lines |-> << >>]

\* what a pattern file name may hold when it is opened
FileContents == {GliderFile, ColumnFile, ShortLineFile, WordLineFile, MissingFile}

\* x, y = map(int, line.split()) succeeds
LineParses(line) ==
    /\ Len(line.toks) = 2
    /\ \A i \in 1 .. Len(line.toks) : line.toks[i].isint

\* the loop of life_load over the lines from index i on, cells being the
\* dictionary built so far
RECURSIVE LoadLines(_, _, _, _)
LoadLines(centre_cell, lines, i, cells) ==
    IF i > Len(lines) THEN [err |-> "none", cells |-> cells]
    ELSE IF lines[i].hash THEN LoadLines(centre_cell, lines, i + 1, cells)
    ELSE IF ~LineParses(lines[i]) THEN [err |-> "ValueError", cells |-> cells]
    ELSE LoadLines(centre_cell, lines, i + 1,
                   DictSet(cells,
                           <<centre_cell[1] + lines[i].toks[1].val,
                             centre_cell[2] + lines[i].toks[2].val>>,
                           TRUE))

\* life_load(centre_cell, filename), file being what filename holds: the
\* dictionary returned, or the exception raised
life_load(centre_cell, file) ==
    IF ~file.exists THEN [err |-> "IOError", cells |-> initialise_empty_cells]
    ELSE LoadLines(centre_cell, file.lines, 1, initialise_empty_cells)

\* the keys of initialise_grid that load a pattern, with the anchor each passes
LoadKeys == {"g", "a", "s", "l", "p", "d"}
AnchorOf(key) ==
    IF key = "g" THEN <<20, 6>>
    ELSE IF key = "l" THEN <<3, 3>>
    ELSE CENTRE_CELL

\* ------------------------------------------------------------------------
\* The rule engine, phase by phase

\* {(x, y): 0 for (x, y), alive in cells.items() if alive}
LiveCellsOf(cells) == [c \in Alive(cells) |-> 0]

\* the neighbour count of each live cell after the counting loop
CountLive(lc) ==
    [c \in DOMAIN lc |->
        lc[c] + Cardinality({i \in 1 .. 8 : cell_neighbours(c)[i] \in DOMAIN lc})]

\* the (live cell, neighbour index) pairs that increment the candidate k
CandidateHits(lc, k) ==
    {p \in (DOMAIN lc) \X (1 .. 8) : cell_neighbours(p[1])[p[2]] = k}

\* deadcell_candidates after the counting loop: a defaultdict(int) that gets a
\* key for each neighbour of a live cell that is not itself a live cell
CountDead(lc) ==
    LET cand == {cell_neighbours(c)[i] : c \in DOMAIN lc, i \in 1 .. 8} \ DOMAIN lc
    IN  [k \in cand |-> Cardinality(CandidateHits(lc, k))]

\* rule 3 with its threshold off by one
dies_above_four(neighbour_count) == neighbour_count < 2 \/ neighbour_count > 4

\* rules 1 and 3: the live cell is killed
dies(neighbour_count) == neighbour_count < 2 \/ neighbour_count > 3

\* rule 4: the dead cell comes to life
reproduces(neighbour_count) == neighbour_count = 3

\* cells_ngen after the loop over livecells
ApplyDeaths(ngen, lc) ==
    LET killed == {c \in DOMAIN lc : dies(lc[c])}
    IN  [c \in (DOMAIN ngen) \cup killed |-> IF c \in killed THEN FALSE ELSE ngen[c]]

\* cells_ngen after the loop over deadcell_candidates
ApplyBirths(ngen, dcc) ==
    LET born == {c \in DOMAIN dcc : reproduces(dcc[c]) /\ is_in_display_surface(c)}
    IN  [c \in (DOMAIN ngen) \cup born |-> IF c \in born THEN TRUE ELSE ngen[c]]

\* ------------------------------------------------------------------------
\* Random seeding

\* (random.randint(0, CELL_WIDTH-1), random.randint(0, CELL_HEIGHT-1))
RandomCells == (0 .. CELL_WIDTH - 1) \X (0 .. CELL_HEIGHT - 1)

\* gen_cell_random without its test: every cell drawn is yielded
is_unseen_untested(randomcell, seen) == TRUE

\* randomcell not in s
is_unseen(randomcell, seen) == randomcell \notin seen

\* the sets of cells gen_cell_random(n) can have yielded when it is exhausted:
\* each of the n passes draws cells until one passes the test, and yields it
RECURSIVE gen_cell_random(_)
gen_cell_random(n) ==
    IF n <= 0 THEN {{}}
    ELSE {seen \cup {randomcell} :
            <<seen, randomcell>> \in
                {p \in gen_cell_random(n - 1) \X RandomCells : is_unseen(p[2], p[1])}}

\* the dictionaries initialise_random_cells(n) can return
initialise_random_cells(n) ==
    {[c \in Surface \cup yielded |-> c \in yielded] :
        yielded \in gen_cell_random((CELL_WIDTH * CELL_HEIGHT) \div n)}

\* ------------------------------------------------------------------------
\* Rendering

\* the rectangles draw_cells hands to pygame.draw.rect
draw_cells(cells) ==
    {<<c[1] * CELL_SIZE, c[2] * CELL_SIZE, CELL_SIZE, CELL_SIZE>> : c \in Alive(cells)}

\* ------------------------------------------------------------------------
\* Mouse positions reported by pygame.mouse.get_pos(); the cursor may be
\* outside the window
MouseXs == {0 - 5, 15}
MouseYs == {15}

\* a dictionary with no keys
EmptyDict == [c \in {} |-> 0]

\* ------------------------------------------------------------------------
\* State

VARIABLES
    pc,                   \* where the program is: "init" (the loop of
                          \* initialise_grid), "main" (the main game
                          \* loop), "count", "decide_live", "decide_dead",
                          \* "return" (inside live_or_die), "terminated",
                          \* "crashed" (an uncaught exception)
    heap,                 \* reference -> dictionary object
    cells,                \* the driver's grid: cells of initialise_grid / main
    gen_count,            \* main's generation counter
    cells_ngen,           \* live_or_die: reference of the next generation
    livecells,            \* live_or_die: live cell -> neighbour count
    deadcell_candidates,  \* live_or_die: dead neighbour -> neighbour count
    polled,               \* initialise_grid: the events of the current
                          \* pygame.event.get() handled so far
    drawn,                \* the rectangles of the last frame drawn
    err                   \* the exception that ended the program, or "none"

vars == <<pc, heap, cells, gen_count, cells_ngen, livecells, deadcell_candidates,
          polled, drawn, err>>

lodVars == <<cells_ngen, livecells, deadcell_candidates>>

\* the dictionary the driver's grid refers to
Cur == heap[cells]

\* main() up to the first pass of the loop of initialise_grid
Init ==
    /\ pc = "init"
    /\ heap = (1 :> initialise_empty_cells)
    /\ cells = 1
    /\ gen_count = UNBOUND
    /\ cells_ngen = NoRef
    /\ livecells = EmptyDict
    /\ deadcell_candidates = EmptyDict
    /\ polled = 0
    /\ drawn = {}
    /\ err = "none"

\* ------------------------------------------------------------------------
\* initialise_grid

\* Each pass of the loop of initialise_grid handles the events of one
\* pygame.event.get() in turn (lines 82-116) and draws once after the last
\* (lines 118-122).  An event action is one turn of the for loop.

\* QUIT or ESC: terminate(); the pass is not drawn
InitQuit ==
    /\ pc = "init"
    /\ polled < MaxPoll
    /\ pc' = "terminated"
    /\ polled' = polled + 1
    /\ UNCHANGED <<heap, cells, gen_count, lodVars, drawn, err>>

\* the events of the pass are handled: the cells are drawn and the next pass
\* begins
InitDraw ==
    /\ pc = "init"
    /\ drawn' = draw_cells(Cur)
    /\ polled' = 0
    /\ UNCHANGED <<pc, heap, cells, gen_count, lodVars, err>>

\* RETURN: break leaves the for loop, the pass is drawn, the while loop ends,
\* initialise_grid returns its cells and main sets gen_count = 0
InitReturnKey ==
    /\ pc = "init"
    /\ polled < MaxPoll
    /\ pc' = "main"
    /\ polled' = 0
    /\ gen_count' = 0
    /\ drawn' = draw_cells(Cur)
    /\ UNCHANGED <<heap, cells, lodVars, err>>

\* the r key: cells = initialise_random_cells(n), for any outcome of the
\* random draws
RandomKey(n) ==
    /\ pc = "init"
    /\ polled < MaxPoll
    /\ polled' = polled + 1
    /\ \E d \in initialise_random_cells(n) :
          /\ cells' = NewRef(heap)
          /\ heap' = (cells' :> d)
    /\ UNCHANGED <<pc, gen_count, lodVars, drawn, err>>

InitRandomKey == RandomKey(START_FRACTION)

\* a pattern key: cells = life_load(anchor, file), or the exception of
\* life_load, which nothing catches
LoadKey(key, file) ==
    /\ pc = "init"
    /\ polled < MaxPoll
    /\ polled' = polled + 1
    /\ LET got == life_load(AnchorOf(key), file)
       IN  IF got.err = "none"
           THEN /\ cells' = NewRef(heap)
                /\ heap' = (cells' :> got.cells)
                /\ UNCHANGED <<pc, err>>
           ELSE /\ pc' = "crashed"
                /\ err' = got.err
                /\ UNCHANGED <<heap, cells>>
    /\ UNCHANGED <<gen_count, lodVars, drawn>>

InitLoadKey == \E key \in LoadKeys, file \in FileContents : LoadKey(key, file)

\* (int(mx // CELL_SIZE), int(my // CELL_SIZE))
this_cell(mx, my) == <<mx \div CELL_SIZE, my \div CELL_SIZE>>

\* MOUSEBUTTONUP: cells[this_cell] = not cells[this_cell]; reading a key the
\* dictionary does not have raises KeyError, which nothing catches
MouseUp(mx, my) ==
    /\ pc = "init"
    /\ polled < MaxPoll
    /\ polled' = polled + 1
    /\ IF this_cell(mx, my) \in DOMAIN Cur
       THEN /\ heap' = [heap EXCEPT ![cells] =
                           DictSet(@, this_cell(mx, my), ~@[this_cell(mx, my)])]
            /\ UNCHANGED <<pc, err>>
       ELSE /\ pc' = "crashed"
            /\ err' = "KeyError"
            /\ UNCHANGED heap
    /\ UNCHANGED <<cells, gen_count, lodVars, drawn>>

InitMouseUp == \E mx \in MouseXs, my \in MouseYs : MouseUp(mx, my)

\* ------------------------------------------------------------------------
\* main

\* QUIT or ESC in the main game loop: terminate()
MainQuit ==
    /\ pc = "main"
    /\ pc' = "terminated"
    /\ UNCHANGED <<heap, cells, gen_count, lodVars, polled, drawn, err>>

\* the reset without line 78: initialise_grid goes on with the running cells
MainReturnKeyKeepsCells ==
    /\ pc = "main"
    /\ pc' = "init"
    /\ UNCHANGED <<heap, cells, gen_count, lodVars, polled, drawn, err>>

\* RETURN in the main game loop: initialise_grid() is entered again and
\* starts from initialise_empty_cells(); the last frame stays on the screen
MainReturnKey ==
    /\ pc = "main"
    /\ pc' = "init"
    /\ cells' = NewRef(heap)
    /\ heap' = (cells' :> initialise_empty_cells)
    /\ UNCHANGED <<gen_count, lodVars, polled, drawn, err>>

\* no event is left: gen_count += 1 and live_or_die(cells) is entered, up to
\* the counting loop (lines 163-169)
MainTick ==
    /\ pc = "main"
    /\ gen_count < MaxGen
    /\ pc' = "count"
    /\ gen_count' = gen_count + 1
    /\ heap' = dict_copy(heap, cells).heap
    /\ cells_ngen' = dict_copy(heap, cells).ref
    /\ livecells' = LiveCellsOf(Cur)
    /\ deadcell_candidates' = EmptyDict
    /\ UNCHANGED <<cells, polled, drawn, err>>

\* the counting loop (lines 172-179)
LodCount ==
    /\ pc = "count"
    /\ pc' = "decide_live"
    /\ livecells' = CountLive(livecells)
    /\ deadcell_candidates' = CountDead(livecells)
    /\ UNCHANGED <<heap, cells, gen_count, cells_ngen, polled, drawn, err>>

\* the loop over livecells (lines 182-188)
LodDecideLive ==
    /\ pc = "decide_live"
    /\ pc' = "decide_dead"
    /\ heap' = [heap EXCEPT ![cells_ngen] = ApplyDeaths(@, livecells)]
    /\ UNCHANGED <<cells, gen_count, lodVars, polled, drawn, err>>

\* the loop over deadcell_candidates (lines 191-196)
LodDecideDead ==
    /\ pc = "decide_dead"
    /\ pc' = "return"
    /\ heap' = [heap EXCEPT ![cells_ngen] = ApplyBirths(@, deadcell_candidates)]
    /\ UNCHANGED <<cells, gen_count, lodVars, polled, drawn, err>>

\* return cells_ngen; main binds cells to it and draws the generation
LodReturn ==
    /\ pc = "return"
    /\ pc' = "main"
    /\ cells' = cells_ngen
    /\ heap' = Collect(heap, {cells_ngen})
    /\ drawn' = draw_cells(heap[cells_ngen])
    /\ cells_ngen' = NoRef
    /\ livecells' = EmptyDict
    /\ deadcell_candidates' = EmptyDict
    /\ UNCHANGED <<gen_count, polled, err>>

Next ==
    \/ InitQuit
    \/ InitDraw
    \/ InitReturnKey
    \/ InitRandomKey
    \/ InitLoadKey
    \/ InitMouseUp
    \/ MainQuit
    \/ MainReturnKey
    \/ MainTick
    \/ LodCount
    \/ LodDecideLive
    \/ LodDecideDead
    \/ LodReturn

Spec == Init /\ [][Next]_vars

\* The program when every pygame.event.get() of initialise_grid returns one
\* event at most.  The grids, counters and positions reached are those of
\* Spec (an event handled later in the same pass is handled first in the next
\* pass here); only the frames left on the screen meanwhile differ.
FirstEvent == polled = 0

NextSingle ==
    \/ FirstEvent /\ InitQuit
    \/ FirstEvent /\ InitReturnKey
    \/ FirstEvent /\ InitRandomKey
    \/ FirstEvent /\ InitLoadKey
    \/ FirstEvent /\ InitMouseUp
    \/ InitDraw
    \/ MainQuit
    \/ MainReturnKey
    \/ MainTick
    \/ LodCount
    \/ LodDecideLive
    \/ LodDecideDead
    \/ LodReturn

SpecSingle == Init /\ [][NextSingle]_vars

\* ------------------------------------------------------------------------
\* The functions on their own: live_or_die on every grid the initialisation
\* can leave behind within a neighbourhood, initialise_random_cells on
\* several fractions

\* a cell of the surface with its Moore neighbours in the surface
Window(c) ==
    ({c} \cup {cell_neighbours(c)[i] : i \in 1 .. 8}) \cap Surface

\* the in-surface grids mouse clicks can set up: any choice of live cells
\* within one window
FnGrids ==
    {[c \in Surface |-> c \in live] :
        live \in UNION {SUBSET Window(c) : c \in Surface}}

\* the keys outside the surface a pattern load leaves in the dictionary
OutPart(d) == [k \in (DOMAIN d) \ Surface |-> d[k]]

\* the out-of-surface parts a dictionary can have: none, those of the
\* patterns loaded at the anchors near the surface, and the same once dead
FnExtras ==
    LET loaded == {life_load(a, f) : a \in {CENTRE_CELL, <<3, 3>>}, f \in FileContents}
        parts == {OutPart(got.cells) : got \in {g \in loaded : g.err = "none"}}
    IN  parts \cup {[k \in DOMAIN e |-> FALSE] : e \in parts}

FnInputs == {e @@ g : g \in FnGrids, e \in FnExtras}

\* the fractions initialise_random_cells is applied to
Fractions == {START_FRACTION - 2, START_FRACTION, CELL_WIDTH * CELL_HEIGHT + 1}

InitFn ==
    /\ cells = 1
    /\ cells_ngen = NoRef
    /\ livecells = EmptyDict
    /\ deadcell_candidates = EmptyDict
    /\ polled = 0
    /\ err = "none"
    /\ \/ /\ pc = "main"
          /\ gen_count = 0
          /\ heap \in {(1 :> d) : d \in FnInputs}
          /\ drawn = draw_cells(heap[1])
       \/ /\ pc = "init"
          /\ gen_count = UNBOUND
          /\ heap = (1 :> initialise_empty_cells)
          /\ drawn = {}

\* initialise_random_cells(n) for a fraction n; the dictionary it returns
\* does not depend on the one it replaces, so it is applied to the first
FnRandom ==
    /\ Alive(Cur) = {}
    /\ \E n \in Fractions : RandomKey(n)

NextFn ==
    \/ FnRandom
    \/ MainTick
    \/ LodCount
    \/ LodDecideLive
    \/ LodDecideDead
    \/ LodReturn

SpecFn == InitFn /\ [][NextFn]_vars

\* ------------------------------------------------------------------------
\* Properties

\* the full-scan reference: live Moore neighbours of c, cells outside the
\* surface counting as dead
MooreInSurface(d, c) ==
    Cardinality({i \in 1 .. 8 :
        LET nb == <<c[1] + (<<0 - 1, 0, 1, 0 - 1, 1, 0 - 1, 0, 1>>)[i],
                    c[2] + (<<0 - 1, 0 - 1, 0 - 1, 0, 0, 1, 1, 1>>)[i]>>
        IN  nb \in Surface /\ d[nb]})

\* Conway's rule for the cell c of the grid d
ConwayAlive(d, c) ==
    \/ d[c] /\ MooreInSurface(d, c) \in {2, 3}
    \/ ~d[c] /\ MooreInSurface(d, c) = 3

\* live_or_die has applied every rule and is about to return
AtReturn == pc = "return"

\* the dictionary live_or_die is about to return
Ngen == heap[cells_ngen]

\* C1: for a grid whose live cells all lie inside the surface, the grid
\* live_or_die returns has an in-surface cell alive exactly when Conway's
\* rule on the full scan with hard edges says so.
C1_SparseEqualsFullScan ==
    (AtReturn /\ Alive(Cur) \subseteq Surface) =>
        \A c \in Surface : Ngen[c] = ConwayAlive(Cur, c)

\* C1 witness: a return where an overcrowded cell has died, a cell with two
\* or three neighbours lives on and a dead cell with three was born
C1_Witness ==
    /\ AtReturn
    /\ Alive(Cur) \subseteq Surface
    /\ \E c \in Surface : Cur[c] /\ MooreInSurface(Cur, c) > 3 /\ ~Ngen[c]
    /\ \E c \in Surface : Cur[c] /\ MooreInSurface(Cur, c) = 2 /\ Ngen[c]
    /\ \E c \in Surface : ~Cur[c] /\ MooreInSurface(Cur, c) = 3 /\ Ngen[c]

\* C2 (as claimed): every dictionary of the program has exactly the cells of
\* the surface as its keys.
C2_KeysAreSurface == \A r \in DOMAIN heap : DOMAIN heap[r] = Surface

\* C3: a cell outside the surface that is not alive in the input is not alive
\* in the grid live_or_die returns, whatever its neighbour count.
C3_NoBirthOutside ==
    AtReturn =>
        \A c \in (DOMAIN Ngen) \cup (DOMAIN deadcell_candidates) :
            (c \notin Surface /\ c \notin Alive(Cur)) => c \notin Alive(Ngen)

\* C3 witness: a return where a candidate just left of the surface and a
\* candidate just above it had exactly three live neighbours
C3_Witness ==
    /\ AtReturn
    /\ \E c \in DOMAIN deadcell_candidates :
          c[1] = 0 - 1 /\ deadcell_candidates[c] = 3 /\ c \notin Alive(Ngen)
    /\ \E c \in DOMAIN deadcell_candidates :
          c[2] = 0 - 1 /\ deadcell_candidates[c] = 3 /\ c \notin Alive(Ngen)

\* the in-surface part of d with every cell outside the surface dead
Clipped(d) == [c \in Surface |-> d[c]]

\* C4 (as claimed): a cell loaded outside the surface is inert: it is not a
\* counted live cell, the in-surface part of the next generation is what it
\* would be with that cell dead, and no rectangle is drawn for it.
C4_OutsideIsInert ==
    /\ \A c \in DOMAIN livecells : c \in Surface
    /\ AtReturn => \A c \in Surface : Ngen[c] = ConwayAlive(Clipped(Cur), c)
    /\ \A rect \in drawn :
          /\ rect[1] >= 0 /\ rect[1] < WINDOW_WIDTH
          /\ rect[2] >= 0 /\ rect[2] < WINDOW_HEIGHT

\* the number of live cells of d among the eight neighbours of c
MooreAll(d, c) ==
    Cardinality({i \in 1 .. 8 :
        <<c[1] + (<<0 - 1, 0, 1, 0 - 1, 1, 0 - 1, 0, 1>>)[i],
          c[2] + (<<0 - 1, 0 - 1, 0 - 1, 0, 0, 1, 1, 1>>)[i]>> \in Alive(d)})

\* C5: every step inside live_or_die leaves the input dictionary as it was
\* (same keys, same flags), and the counts it decides by are those of the
\* input generation.
C5_InputUntouched ==
    [][pc' \in {"count", "decide_live", "decide_dead", "return"} =>
          /\ cells' = cells
          /\ heap'[cells] = heap[cells]
          /\ pc' # "count" =>
                /\ livecells' = [c \in Alive(Cur) |-> MooreAll(Cur, c)]
                /\ \A k \in DOMAIN deadcell_candidates' :
                      deadcell_candidates'[k] = MooreAll(Cur, k)]_vars

\* C5 witness: a return where the next generation differs from the input,
\* by a death and by a birth
C5_Witness ==
    /\ AtReturn
    /\ cells_ngen # cells
    /\ \E c \in Surface : Cur[c] /\ ~Ngen[c]
    /\ \E c \in Surface : ~Cur[c] /\ Ngen[c]

\* C6: initialise_random_cells(n) returns a grid over the surface with
\* exactly floor(CELL_WIDTH*CELL_HEIGHT / n) live cells, whatever is drawn.
C6_RandomCardinality ==
    [][\A n \in Fractions :
          RandomKey(n) =>
              /\ DOMAIN heap'[cells'] = Surface
              /\ Cardinality(Alive(heap'[cells'])) = (CELL_WIDTH * CELL_HEIGHT) \div n]_vars

\* C6 witness: the grid returned for a fraction that does not divide the
\* number of cells and asks for more than one cell
C6_Witness ==
    /\ pc = "init"
    /\ (CELL_WIDTH * CELL_HEIGHT) \div (START_FRACTION - 2) > 1
    /\ Cardinality(Alive(Cur)) = (CELL_WIDTH * CELL_HEIGHT) \div (START_FRACTION - 2)

\* C7 (as claimed): a click on a cell outside the surface raises the error
\* and changes no dictionary.
C7_ToggleOutsideRejected ==
    [][\A mx \in MouseXs, my \in MouseYs :
          (MouseUp(mx, my) /\ this_cell(mx, my) \notin Surface) =>
              (err' = "KeyError" /\ heap' = heap)]_vars

\* C8 (as claimed): a pattern load that fails leaves the grid as it was and
\* the program in the initialisation loop.
C8_FailedLoadRecovers ==
    [][\A key \in LoadKeys, file \in FileContents :
          (LoadKey(key, file) /\ life_load(AnchorOf(key), file).err # "none") =>
              (pc' = "init" /\ cells' = cells /\ heap' = heap)]_vars

\* the centres of the horizontal lines that keep one cell to every edge
BlinkerCentres ==
    {c \in Surface : /\ c[1] - 1 >= 1 /\ c[1] + 1 <= CELL_WIDTH - 2
                     /\ c[2] >= 1 /\ c[2] <= CELL_HEIGHT - 2}
Horizontal(c) == {<<c[1] - 1, c[2]>>, c, <<c[1] + 1, c[2]>>}
Vertical(c) == {<<c[1], c[2] - 1>>, c, <<c[1], c[2] + 1>>}

\* C9: live_or_die takes a lone horizontal line of three cells to the
\* vertical line through its centre, and that vertical line back.
C9_Blinker ==
    AtReturn =>
        \A c \in BlinkerCentres :
            /\ Alive(Cur) = Horizontal(c) => Alive(Ngen) = Vertical(c)
            /\ Alive(Cur) = Vertical(c) => Alive(Ngen) = Horizontal(c)

\* C9 witness: the second generation returns the horizontal line from the
\* vertical line the first generation produced
C9_Witness ==
    /\ AtReturn
    /\ gen_count = 2
    /\ \E c \in BlinkerCentres :
          /\ drawn = draw_cells([k \in Vertical(c) |-> TRUE])
          /\ Alive(Cur) = Vertical(c)
          /\ Alive(Ngen) = Horizontal(c)

\* C10: the initialisation loop is always entered with a fresh all-dead grid
\* over the surface, and the run starts from it with gen_count = 0.
C10_FreshGridOnReset ==
    /\ (pc = "init" /\ heap[cells] = [c \in Surface |-> FALSE])
    /\ [][/\ (pc # "init" /\ pc' = "init") =>
                heap'[cells'] = [c \in Surface |-> FALSE]
          /\ (pc = "init" /\ pc' = "main") => gen_count' = 0]_vars

\* C10 witness: the initialisation loop just entered again after the last
\* generation, whose live cells are still on the screen, with every cell dead
C10_Witness ==
    /\ pc = "init"
    /\ gen_count = MaxGen
    /\ polled = 0
    /\ drawn # {}
    /\ Alive(Cur) = {}

====
